---- MODULE Spec2Model ----
(***************************************************************************)
(* Model of the index computation engine of src/src/api/indexService.js,   *)
(* of the data source it reads (src/src/api/dataService.js) and of the     *)
(* border validator BorderVerifier (src/unnamed/part_006).                 *)
(*                                                                         *)
(* Numbers.  Scores are kept in tenths of a point (a score of 33.3 is the  *)
(* integer 333), weights in tenths (1.5 is 15), and a quotient that the    *)
(* code keeps unrounded is kept as the pair <<numerator, denominator>>.    *)
(* Arithmetic is exact: the floating-point error of the JavaScript         *)
(* doubles is not modelled.  Time is in milliseconds.                      *)
(***************************************************************************)
EXTENDS Integers, Sequences, FiniteSets, TLC

VARIABLES
    rawData,              \* the upstream series of the data year: criterion -> country -> raw value
    WEIGHTING_SCHEMES,    \* the scheme registry: scheme id -> [weights: criterion -> weight]
    globalStatsCache,     \* criterion -> cached statistics, for the criteria cached
    compositeIndexCache,  \* <<year, scheme id>> -> cached composite result, for the keys cached
    lastCacheUpdate,      \* the one timestamp shared by both caches
    now,                  \* Date.now()
    faults,               \* what is wrong upstream: the criteria whose API request fails,
                          \* and those whose series holds a null entry under another year
    validationResults,    \* BorderVerifier.validationResults: country code -> validation
    calls,                \* the calls of calculateCompositeIndex suspended at an await, oldest first
    mapView,              \* the Map component: its selectedYear and weightingScheme props
                          \* and its indexData state
    staleEntries,         \* history: the composite keys whose entry was written by a
                          \* computation that had read statistics before the last clearCache
    ret                   \* the last call: its operation, arguments and return value

\* the state of the calls in flight and of their callers
asyncVars == <<calls, mapView, staleEntries>>

vars == <<rawData, WEIGHTING_SCHEMES, globalStatsCache, compositeIndexCache,
          lastCacheUpdate, now, faults, validationResults, calls, mapView,
          staleEntries, ret>>

-----------------------------------------------------------------------------
(* Bounds of the model *)

\* raw values of the series are 0..MaxRaw
MaxRaw == 2
\* a raw value handed to normalizeValue lies at most Outlier outside 0..MaxRaw
Outlier == 1
\* the clock runs for MaxTicks steps
MaxTicks == 3
\* getCountryRankings is asked for 0..MaxLimit countries
MaxLimit == 3
\* at most MaxCalls calls of calculateCompositeIndex are in flight
MaxCalls == 2

-----------------------------------------------------------------------------
(* JavaScript values *)

\* null, as a normalized score
Null == -1

Number(n) == [kind |-> "number", v |-> n]
NaN == [kind |-> "NaN", v |-> 0]
JsNull == [kind |-> "null", v |-> 0]
Undefined == [kind |-> "undefined", v |-> 0]
JsString == [kind |-> "string", v |-> 0]

NonNumbers == {NaN, JsNull, Undefined, JsString}

Min(a, b) == IF a <= b THEN a ELSE b
Max(a, b) == IF a >= b THEN a ELSE b

\* Math.round(num / den) for den > 0: the nearest integer, a half rounded up
MathRound(num, den) == (2 * num + den) \div (2 * den)

-----------------------------------------------------------------------------
(* CRITERION_CONFIG *)

Criteria ==
    <<"floods", "cyclones", "extremeHeat", "wildfires", "waterScarcity",
      "gdpPerCapita", "foodSecurity">>

CriteriaSet == {Criteria[i] : i \in 1..Len(Criteria)}

CRITERION_CONFIG ==
    [c \in CriteriaSet |->
        [type |-> IF c \in {"gdpPerCapita", "foodSecurity"} THEN "economic" ELSE "climate",
         invertScore |-> c # "gdpPerCapita",
         category |-> CASE c = "gdpPerCapita" -> "Economic Prosperity"
                        [] c = "foodSecurity" -> "Social Welfare"
                        [] OTHER -> "Environmental Risk"]]

-----------------------------------------------------------------------------
(* normalizeValue *)

\* the mutants of normalizeValue
normalizeValue_NoClamp(value, stats, config) ==
    IF value.kind # "number" THEN Null
    ELSE LET range == stats.p90 - stats.p10
             num == value.v - stats.p10
         IN  IF range = 0 THEN 500
             ELSE MathRound((IF config.invertScore THEN range - num ELSE num) * 1000, range)

normalizeValue_NoInvert(value, stats, config) ==
    IF value.kind # "number" THEN Null
    ELSE LET range == stats.p90 - stats.p10
             clampedValue == Max(stats.p10, Min(stats.p90, value.v))
         IN  IF range = 0 THEN 500
             ELSE MathRound((clampedValue - stats.p10) * 1000, range)

normalizeValue_NoMidpoint(value, stats, config) ==
    IF value.kind # "number" THEN Null
    ELSE LET range == stats.p90 - stats.p10
             clampedValue == Max(stats.p10, Min(stats.p90, value.v))
             num == clampedValue - stats.p10
         IN  IF range = 0 THEN (IF config.invertScore THEN 1000 ELSE 0)
             ELSE MathRound((IF config.invertScore THEN range - num ELSE num) * 1000, range)

\* The score of one raw value, in tenths: Null for a value that is no number,
\* 50 when the percentile range is empty, else the value clamped to
\* [p10, p90], rescaled to [0, 1], inverted on demand, and rounded to a tenth.
normalizeValue(value, stats, config) ==
    IF value.kind # "number" THEN Null
    ELSE LET range == stats.p90 - stats.p10
         IN  IF range = 0 THEN 500
             ELSE LET clampedValue == Max(stats.p10, Min(stats.p90, value.v))
                      num == clampedValue - stats.p10
                      normalizedValue == IF config.invertScore THEN range - num ELSE num
                  IN  MathRound(normalizedValue * 1000, range)

-----------------------------------------------------------------------------
(* The raw series *)

CountryCodes == {"USA", "CAN", "MEX"}

\* the decade year the series holds data for, and a year it holds nothing for
DataYears == {2020}
Years == {2020, 2025}

RawValues == {Number(n) : n \in 0..MaxRaw}

\* a function with no entry: {} as a JavaScript object
EmptyObject == [x \in {} |-> 0]

\* an object once it is built: the function with every entry evaluated
Built(obj) == obj @@ EmptyObject

-----------------------------------------------------------------------------
(* dataService: fetchClimateData, fetchEconomicData *)

\* MOCK_DATA, the fallback series.  Its values are drawn at random when the
\* module loads and every country has a number; these stand for one draw.
MOCK_DATA ==
    [criterion \in CriteriaSet |->
        [country \in CountryCodes |->
            CASE country = "USA" -> Number(MaxRaw)
              [] country = "CAN" -> Number(1)
              [] OTHER -> Number(0)]]

fetchData_NoFallback(criterion) ==
    IF criterion \notin CriteriaSet THEN EmptyObject
    ELSE IF criterion \in faults.upstream THEN EmptyObject
    ELSE rawData[criterion]

\* The series fetchClimateData / fetchEconomicData resolve with: the API's
\* series, or MOCK_DATA when the request fails.  A criterion the data source
\* has no endpoint and no mock series for gets the empty series.
fetchData(criterion) ==
    IF criterion \notin CriteriaSet THEN EmptyObject
    ELSE IF criterion \in faults.upstream THEN MOCK_DATA[criterion]
    ELSE rawData[criterion]

-----------------------------------------------------------------------------
(* calculateGlobalStats *)

CACHE_DURATION == 300000

\* the step of the clock: half the life of a cache entry
TickStep == CACHE_DURATION \div 2

\* std is kept as the rational it is the square root of
DefaultStats ==
    [min |-> 0, max |-> 100, mean |-> <<50, 1>>, std |-> [sqrtOf |-> <<625, 1>>],
     p10 |-> 10, p90 |-> 90, count |-> 0, range |-> 100]

\* allValues of one criterion: the countries whose value is a number
NumericCountries(series) == {c \in DOMAIN series : series[c].kind = "number"}

RECURSIVE SumValues(_, _)
SumValues(series, S) ==
    IF S = {} THEN 0
    ELSE LET c == CHOOSE x \in S : TRUE
         IN  series[c].v + SumValues(series, S \ {c})

\* sortedValues[k], 0-based, of the ascending sort of allValues
SortedAt(series, k) ==
    LET S == NumericCountries(series)
    IN  CHOOSE x \in {series[c].v : c \in S} :
            /\ Cardinality({c \in S : series[c].v < x}) <= k
            /\ k < Cardinality({c \in S : series[c].v <= x})

RECURSIVE SumSquares(_, _)
SumSquares(series, S) ==
    IF S = {} THEN 0
    ELSE LET c == CHOOSE x \in S : TRUE
         IN  series[c].v * series[c].v + SumSquares(series, S \ {c})

\* variance: the mean of the squared distances to the mean, as <<num, den>>
Variance(series) ==
    LET S == NumericCountries(series)
        n == Cardinality(S)
        sum == SumValues(series, S)
    IN  <<n * SumSquares(series, S) - sum * sum, n * n>>

\* the statistics computed from the series; DefaultStats when it holds no number
ComputeStats(series) ==
    LET n == Cardinality(NumericCountries(series))
    IN  IF n = 0 THEN DefaultStats
        ELSE [min |-> SortedAt(series, 0),
              max |-> SortedAt(series, n - 1),
              mean |-> <<SumValues(series, NumericCountries(series)), n>>,
              std |-> [sqrtOf |-> Variance(series)],
              p10 |-> SortedAt(series, (n * 1) \div 10),
              p90 |-> SortedAt(series, (n * 9) \div 10),
              count |-> n,
              range |-> SortedAt(series, n - 1) - SortedAt(series, 0)]

\* whether a cache entry is served: it exists and the shared timestamp is fresh
Fresh(cache, key) == key \in DOMAIN cache /\ (now - lastCacheUpdate) < CACHE_DURATION

\* whether the try block of calculateGlobalStats throws: the criterion has no
\* configuration, Object.keys meets a null year entry, or no value is a number
StatsThrows(criterion) ==
    \/ criterion \notin CriteriaSet
    \/ criterion \in faults.nullYear
    \/ NumericCountries(fetchData(criterion)) = {}

\* what calculateGlobalStats(criterion) returns in the current state
calculateGlobalStats(criterion) ==
    IF Fresh(globalStatsCache, criterion) THEN globalStatsCache[criterion]
    ELSE IF StatsThrows(criterion) THEN DefaultStats
    ELSE ComputeStats(fetchData(criterion))

StatsStored_AlsoDefault(criterion) == ~Fresh(globalStatsCache, criterion)

\* whether that call stores its result: a cache miss whose try block ran through
StatsStored(criterion) ==
    /\ ~Fresh(globalStatsCache, criterion)
    /\ ~StatsThrows(criterion)

-----------------------------------------------------------------------------
(* normalizeAndScoreData, getAllNormalizedScores *)

\* the normalized series of one criterion and year: an entry for every
\* country whose raw value is neither null nor undefined
normalizeAndScoreData(criterion, year) ==
    IF year \notin DataYears THEN EmptyObject
    ELSE LET yearData == fetchData(criterion)
             stats == calculateGlobalStats(criterion)
             present == {c \in DOMAIN yearData :
                            yearData[c] # JsNull /\ yearData[c] # Undefined}
         IN  Built([c \in present |->
                 [rawValue |-> yearData[c],
                  normalizedScore |->
                      normalizeValue(yearData[c], stats, CRITERION_CONFIG[criterion])]])

getAllNormalizedScores(year) ==
    Built([criterion \in CriteriaSet |-> normalizeAndScoreData(criterion, year)])

-----------------------------------------------------------------------------
(* WEIGHTING_SCHEMES *)

\* Strings that the code takes apart are sequences of characters.
EqualId == <<"e", "q", "u", "a", "l">>
EnvironmentFocusedId ==
    <<"e", "n", "v", "i", "r", "o", "n", "m", "e", "n", "t",
      "F", "o", "c", "u", "s", "e", "d">>
EconomicFocusedId ==
    <<"e", "c", "o", "n", "o", "m", "i", "c", "F", "o", "c", "u", "s", "e", "d">>

Climate == {"floods", "cyclones", "extremeHeat", "wildfires", "waterScarcity"}

\* the registry the module starts with
InitialSchemes ==
    LET ids == {EqualId, EnvironmentFocusedId, EconomicFocusedId}
    IN  [id \in ids |->
            [weights |->
                [c \in CriteriaSet |->
                    CASE id = EqualId -> 10
                      [] id = EnvironmentFocusedId ->
                            IF c \in Climate THEN 15
                            ELSE IF c = "gdpPerCapita" THEN 8 ELSE 10
                      [] OTHER ->
                            IF c \in Climate THEN 8
                            ELSE IF c = "gdpPerCapita" THEN 20 ELSE 15]]]

\* String.prototype.toLowerCase, on the letters the model's names use
LowerChar(ch) ==
    CASE ch = "E" -> "e"
      [] ch = "F" -> "f"
      [] ch = "M" -> "m"
      [] ch = "Q" -> "q"
      [] OTHER -> ch

toLowerCase(str) == [i \in 1..Len(str) |-> LowerChar(str[i])]

IsSpace(ch) == ch = " "

\* str.replace(/\s+/g, '_'): every maximal run of white space becomes one '_'
RECURSIVE ReplaceSpaces(_)
ReplaceSpaces(str) ==
    IF str = <<>> THEN <<>>
    ELSE IF ~IsSpace(Head(str)) THEN <<Head(str)>> \o ReplaceSpaces(Tail(str))
    ELSE IF Len(str) > 1 /\ IsSpace(str[2]) THEN ReplaceSpaces(Tail(str))
    ELSE <<"_">> \o ReplaceSpaces(Tail(str))

\* the id createCustomWeightingScheme files a scheme under
SchemeIdOf(name) == ReplaceSpaces(toLowerCase(name))

\* { ...WEIGHTING_SCHEMES.equal.weights, ...weights }
MergedWeights(weights) ==
    [c \in CriteriaSet |->
        IF c \in DOMAIN weights THEN weights[c]
        ELSE WEIGHTING_SCHEMES[EqualId].weights[c]]

\* WEIGHTING_SCHEMES[weightingScheme]?.weights || WEIGHTING_SCHEMES.equal.weights
SchemeWeights(weightingScheme) ==
    IF weightingScheme \in DOMAIN WEIGHTING_SCHEMES
    THEN WEIGHTING_SCHEMES[weightingScheme].weights
    ELSE WEIGHTING_SCHEMES[EqualId].weights

\* weights[criterion] || 1.0: a weight of 0 counts as 1.0
WeightOf(weights, criterion) ==
    IF weights[criterion] = 0 THEN 10 ELSE weights[criterion]

-----------------------------------------------------------------------------
(* calculateCompositeIndex: the computation on a cache miss *)

RECURSIVE SumOver(_, _)
SumOver(S, f) ==
    IF S = {} THEN 0
    ELSE LET x == CHOOSE y \in S : TRUE
         IN  f[x] + SumOver(S \ {x}, f)

ValidScores_CountsNull(normalizedScores, country) ==
    {criterion \in CriteriaSet : country \in DOMAIN normalizedScores[criterion]}

\* the criteria that count for a country: criterionData exists and its
\* normalizedScore is not null
ValidScores(normalizedScores, country) ==
    {criterion \in CriteriaSet :
        /\ country \in DOMAIN normalizedScores[criterion]
        /\ normalizedScores[criterion][country].normalizedScore # Null}

\* Math.ceil(criteria.length / 2)
GateMin == (Len(Criteria) + 1) \div 2

PassesGate_Strict(validScores) == Cardinality(validScores) > GateMin

\* validScores.length >= Math.ceil(criteria.length / 2)
PassesGate(validScores) == Cardinality(validScores) >= GateMin

\* the countries that have an entry in any criterion
CountriesWithData(normalizedScores) ==
    UNION {DOMAIN normalizedScores[criterion] : criterion \in CriteriaSet}

\* the unrounded compositeScore of a country, <<weightedSum, totalWeight>>,
\* and <<0, 1>> when totalWeight is not positive
RawCompositeScore(normalizedScores, weights, country) ==
    LET valid == ValidScores(normalizedScores, country)
        weightedSum ==
            SumOver(valid,
                    [c \in valid |->
                        normalizedScores[c][country].normalizedScore * WeightOf(weights, c)])
        totalWeight == SumOver(valid, [c \in valid |-> WeightOf(weights, c)])
    IN  IF totalWeight > 0 THEN <<weightedSum, totalWeight>> ELSE <<0, 1>>

\* Math.round(compositeScore * 10) / 10, in tenths
RoundedScore(raw) == MathRound(raw[1], raw[2])

\* sortedScores.indexOf(score) + 1: the rounded score is looked up among the
\* unrounded scores sorted descending; its first position is the number of
\* scores strictly above it, and indexOf gives -1 when none equals it
RankOf(allCompositeScores, score) ==
    IF \E c \in DOMAIN allCompositeScores :
            allCompositeScores[c][1] = score * allCompositeScores[c][2]
    THEN Cardinality({c \in DOMAIN allCompositeScores :
                        allCompositeScores[c][1] > score * allCompositeScores[c][2]}) + 1
    ELSE 0

PercentileOf_OffByOne(rank, total) == MathRound((total - rank) * 100, total)

\* Math.round((1 - (rank - 1) / sortedScores.length) * 100)
PercentileOf(rank, total) == MathRound((total - (rank - 1)) * 100, total)

\* compositeResults with the loop over the countries done and the ranking
\* loop still to come
CompositeFrom_Unranked(normalizedScores, year, weightingScheme) ==
    LET weights == SchemeWeights(weightingScheme)
        included == {country \in CountriesWithData(normalizedScores) :
                        PassesGate(ValidScores(normalizedScores, country))}
        allCompositeScores ==
            Built([country \in included |->
                RawCompositeScore(normalizedScores, weights, country)])
    IN  [country \in included |->
            LET valid == ValidScores(normalizedScores, country)
                score == RoundedScore(allCompositeScores[country])
            IN  [compositeScore |-> score,
                 componentScores |->
                     [c \in valid |->
                         [score |-> normalizedScores[c][country].normalizedScore,
                          rawValue |-> normalizedScores[c][country].rawValue,
                          weight |-> WeightOf(weights, c)]],
                 dataCompleteness |-> <<Cardinality(valid), Len(Criteria)>>,
                 year |-> year,
                 weightingScheme |-> weightingScheme,
                 totalCriteria |-> Len(Criteria),
                 validCriteria |-> Cardinality(valid),
                 lastUpdated |-> now]]

\* compositeResults as the try block builds it from the normalized scores.
\* Left out of a country's record: confidence, categoryScores and the
\* descriptive fields.
CompositeFrom(normalizedScores, year, weightingScheme) ==
    LET weights == SchemeWeights(weightingScheme)
        included == {country \in CountriesWithData(normalizedScores) :
                        PassesGate(ValidScores(normalizedScores, country))}
        allCompositeScores ==
            Built([country \in included |->
                RawCompositeScore(normalizedScores, weights, country)])
    IN  [country \in included |->
            LET valid == ValidScores(normalizedScores, country)
                score == RoundedScore(allCompositeScores[country])
                rank == RankOf(allCompositeScores, score)
            IN  [compositeScore |-> score,
                 componentScores |->
                     [c \in valid |->
                         [score |-> normalizedScores[c][country].normalizedScore,
                          rawValue |-> normalizedScores[c][country].rawValue,
                          weight |-> WeightOf(weights, c)]],
                 dataCompleteness |-> <<Cardinality(valid), Len(Criteria)>>,
                 year |-> year,
                 weightingScheme |-> weightingScheme,
                 totalCriteria |-> Len(Criteria),
                 validCriteria |-> Cardinality(valid),
                 lastUpdated |-> now,
                 ranking |->
                     [rank |-> rank,
                      percentile |-> PercentileOf(rank, Cardinality(included)),
                      totalCountries |-> Cardinality(included)]]]

\* compositeResults of a call that runs without interruption
CompositeResults(year, weightingScheme) ==
    CompositeFrom(getAllNormalizedScores(year), year, weightingScheme)

-----------------------------------------------------------------------------
(* The operations *)

\* obj[key] = value
Put(obj, key, value) ==
    Built([k \in DOMAIN obj \cup {key} |-> IF k = key THEN value ELSE obj[k]])

\* The statistics cache after every criterion went through calculateGlobalStats
StatsCacheAfter ==
    [criterion \in DOMAIN globalStatsCache \cup {c \in CriteriaSet : StatsStored(c)} |->
        IF StatsStored(criterion) THEN calculateGlobalStats(criterion)
        ELSE globalStatsCache[criterion]]

CalculateCompositeIndex(year, weightingScheme) ==
    LET cacheKey == <<year, weightingScheme>>
    IN  IF Fresh(compositeIndexCache, cacheKey)
        THEN /\ ret' = [op |-> "calculateCompositeIndex", year |-> year,
                        weightingScheme |-> weightingScheme,
                        value |-> compositeIndexCache[cacheKey]]
             /\ UNCHANGED <<rawData, WEIGHTING_SCHEMES, globalStatsCache,
                            compositeIndexCache, lastCacheUpdate, now, faults, asyncVars,
                            validationResults>>
        ELSE LET compositeResults == CompositeResults(year, weightingScheme)
             IN  /\ globalStatsCache' = StatsCacheAfter
                 /\ compositeIndexCache' = Put(compositeIndexCache, cacheKey, compositeResults)
                 /\ lastCacheUpdate' = now
                 /\ ret' = [op |-> "calculateCompositeIndex", year |-> year,
                            weightingScheme |-> weightingScheme,
                            value |-> compositeResults]
                 /\ UNCHANGED <<rawData, WEIGHTING_SCHEMES, now, faults, asyncVars, validationResults>>

CreateCustomWeightingScheme(name, weights) ==
    LET schemeId == SchemeIdOf(name)
    IN  /\ WEIGHTING_SCHEMES' =
               Put(WEIGHTING_SCHEMES, schemeId, [weights |-> MergedWeights(weights)])
        /\ ret' = [op |-> "createCustomWeightingScheme", name |-> name,
                   weights |-> weights, value |-> schemeId]
        /\ UNCHANGED <<rawData, globalStatsCache, compositeIndexCache,
                       lastCacheUpdate, now, faults, asyncVars, validationResults>>

ClearCache ==
    /\ globalStatsCache' = EmptyObject
    /\ compositeIndexCache' = EmptyObject
    /\ lastCacheUpdate' = 0
    /\ calls' = [i \in DOMAIN calls |-> [calls[i] EXCEPT !.preClear = @ \/ calls[i].done # {}]]
    /\ staleEntries' = {}
    /\ ret' = [op |-> "clearCache"]
    /\ UNCHANGED <<rawData, WEIGHTING_SCHEMES, now, faults, validationResults, mapView>>

NormalizeValue(value, stats, config) ==
    /\ ret' = [op |-> "normalizeValue", rawValue |-> value, stats |-> stats,
               config |-> config, value |-> normalizeValue(value, stats, config)]
    /\ UNCHANGED <<rawData, WEIGHTING_SCHEMES, globalStatsCache, compositeIndexCache,
                   lastCacheUpdate, now, faults, asyncVars, validationResults>>

\* Date.now() at the start
StartTime == 4 * CACHE_DURATION

\* every request answered, every series well-formed
NoFaults == [upstream |-> {}, nullYear |-> {}]

\* no Map component is mounted
NoMap == [mounted |-> FALSE]

\* what calculateCompositeIndex(year, weightingScheme) resolves with in the
\* current state: the cached result while it is fresh, else a new one
calculateCompositeIndex(year, weightingScheme) ==
    IF Fresh(compositeIndexCache, <<year, weightingScheme>>)
    THEN compositeIndexCache[<<year, weightingScheme>>]
    ELSE CompositeResults(year, weightingScheme)

\* what that call does to the caches
CompositeCacheEffects(year, weightingScheme) ==
    IF Fresh(compositeIndexCache, <<year, weightingScheme>>)
    THEN UNCHANGED <<globalStatsCache, compositeIndexCache, lastCacheUpdate>>
    ELSE /\ globalStatsCache' = StatsCacheAfter
         /\ compositeIndexCache' =
                Put(compositeIndexCache, <<year, weightingScheme>>,
                    CompositeResults(year, weightingScheme))
         /\ lastCacheUpdate' = now

\* calculateGlobalStats: whatever the try block throws ends in the default
\* statistics, also for a criterion CRITERION_CONFIG does not have
CalculateGlobalStats(criterion) ==
    /\ ret' = [op |-> "calculateGlobalStats", criterion |-> criterion,
               threw |-> FALSE, value |-> calculateGlobalStats(criterion)]
    /\ IF StatsStored(criterion)
       THEN /\ globalStatsCache' =
                   Put(globalStatsCache, criterion, calculateGlobalStats(criterion))
            /\ lastCacheUpdate' = now
       ELSE UNCHANGED <<globalStatsCache, lastCacheUpdate>>
    /\ UNCHANGED <<rawData, WEIGHTING_SCHEMES, compositeIndexCache, now, faults, asyncVars,
                   validationResults>>

\* normalizeAndScoreData as exported: an unknown criterion is thrown back at
\* the caller before the try block; the statistics are computed, and stored,
\* before the year is looked up
NormalizeAndScoreData(criterion, year) ==
    /\ IF criterion \notin CriteriaSet
       THEN /\ ret' = [op |-> "normalizeAndScoreData", criterion |-> criterion,
                       year |-> year, threw |-> TRUE]
            /\ UNCHANGED <<globalStatsCache, lastCacheUpdate>>
       ELSE /\ ret' = [op |-> "normalizeAndScoreData", criterion |-> criterion,
                       year |-> year, threw |-> FALSE,
                       value |-> normalizeAndScoreData(criterion, year)]
            /\ IF StatsStored(criterion)
               THEN /\ globalStatsCache' =
                           Put(globalStatsCache, criterion, calculateGlobalStats(criterion))
                    /\ lastCacheUpdate' = now
               ELSE UNCHANGED <<globalStatsCache, lastCacheUpdate>>
    /\ UNCHANGED <<rawData, WEIGHTING_SCHEMES, compositeIndexCache, now, faults, asyncVars,
                   validationResults>>

-----------------------------------------------------------------------------
(* getCountryBreakdown, getCountryRankings, compareCountries *)

\* analysis.strengths: the criteria of componentScores, in the order of
\* CRITERION_CONFIG, with a score of 75 or more
Strengths(componentScores) ==
    SelectSeq(Criteria,
              LAMBDA c : c \in DOMAIN componentScores /\ componentScores[c].score >= 750)

\* analysis.weaknesses: those with a score of 25 or less
Weaknesses(componentScores) ==
    SelectSeq(Criteria,
              LAMBDA c : c \in DOMAIN componentScores /\ componentScores[c].score <= 250)

\* The breakdown of a country that has an entry: the entry, the country and
\* the analysis.  A recommendation is kept as the list it speaks about.
Breakdown(countryData, country) ==
    LET strengths == Strengths(countryData.componentScores)
        weaknesses == Weaknesses(countryData.componentScores)
    IN  [country |-> country,
         data |-> countryData,
         analysis |->
             [strengths |-> strengths,
              weaknesses |-> weaknesses,
              recommendations |->
                  (IF weaknesses # <<>> THEN <<"weaknesses">> ELSE <<>>)
                  \o (IF strengths # <<>> THEN <<"strengths">> ELSE <<>>)]]

\* the order of the countries in the data source's series
CountryOrder == <<"USA", "CAN", "MEX">>

PositionIn(seq, x) == CHOOSE i \in 1..Len(seq) : seq[i] = x

\* Object.keys(compositeData) lists the countries in the order
\* calculateCompositeIndex met them: criterion by criterion, and within a
\* criterion in the order of its series
FirstSeen(country, year) ==
    LET met == {i \in 1..Len(Criteria) :
                   country \in DOMAIN normalizeAndScoreData(Criteria[i], year)}
        first == CHOOSE i \in met : \A j \in met : i <= j
    IN  first * (Len(CountryOrder) + 1) + PositionIn(CountryOrder, country)

\* countries.map(...).sort((a, b) => b.compositeScore - a.compositeScore):
\* descending by compositeScore, countries of equal score in their key order
SortedCountries(compositeData, year) ==
    LET countries == DOMAIN compositeData
        Before(a, b) ==
            \/ compositeData[a].compositeScore > compositeData[b].compositeScore
            \/ /\ compositeData[a].compositeScore = compositeData[b].compositeScore
               /\ FirstSeen(a, year) < FirstSeen(b, year)
        entry(c) == [country |-> c, data |-> compositeData[c]]
    IN  [i \in 1..Cardinality(countries) |->
            entry(CHOOSE c \in countries :
                     Cardinality({d \in countries : Before(d, c)}) = i - 1)]

\* Array.prototype.slice(begin, end) for 0 <= begin, end
Slice(seq, begin, end) ==
    [i \in 1..(Min(end, Len(seq)) - Min(begin, Len(seq))) |-> seq[Min(begin, Len(seq)) + i]]

\* Array.prototype.slice(-limit) for limit >= 0: the last limit elements, and
\* the whole array for slice(-0)
SliceLast(seq, limit) ==
    IF limit = 0 THEN seq ELSE Slice(seq, Max(Len(seq) - limit, 0), Len(seq))

Reverse(seq) == [i \in 1..Len(seq) |-> seq[Len(seq) + 1 - i]]

\* sortedCountries.slice(-limit).reverse()
BottomOf(sortedCountries, limit) == Reverse(SliceLast(sortedCountries, limit))

\* what getCountryRankings returns for a composite result
Rankings(compositeData, year, limit) ==
    IF DOMAIN compositeData = {}
    THEN [top |-> <<>>, bottom |-> <<>>]
    ELSE LET sortedCountries == SortedCountries(compositeData, year)
         IN  [top |-> Slice(sortedCountries, 0, limit),
              bottom |-> BottomOf(sortedCountries, limit),
              total |-> Len(sortedCountries)]

\* a list of countries as an array, and a value that is no array
ArrayOf(items) == [kind |-> "array", items |-> items]

Requested(countries) == {countries.items[i] : i \in 1..Len(countries.items)}

Comparison_NullEntries(compositeData, countries) ==
    IF countries.kind # "array" THEN EmptyObject
    ELSE [country \in Requested(countries) |->
            IF country \in DOMAIN compositeData THEN compositeData[country]
            ELSE EmptyObject]

\* what compareCountries returns for a composite result: countries.forEach
\* throws for a value that is no array, and the catch block returns {}
Comparison(compositeData, countries) ==
    IF countries.kind # "array" THEN EmptyObject
    ELSE [country \in Requested(countries) \cap DOMAIN compositeData |->
            compositeData[country]]

GetCountryBreakdown(country, year, weightingScheme) ==
    LET compositeData == calculateCompositeIndex(year, weightingScheme)
    IN  /\ ret' = IF country \notin DOMAIN compositeData
                  THEN [op |-> "getCountryBreakdown", country |-> country, year |-> year,
                        weightingScheme |-> weightingScheme, isNull |-> TRUE]
                  ELSE [op |-> "getCountryBreakdown", country |-> country, year |-> year,
                        weightingScheme |-> weightingScheme, isNull |-> FALSE,
                        value |-> Breakdown(compositeData[country], country)]
        /\ CompositeCacheEffects(year, weightingScheme)
        /\ UNCHANGED <<rawData, WEIGHTING_SCHEMES, now, faults, asyncVars, validationResults>>

GetCountryRankings(year, weightingScheme, limit) ==
    /\ ret' = [op |-> "getCountryRankings", year |-> year,
               weightingScheme |-> weightingScheme, limit |-> limit,
               value |-> Rankings(calculateCompositeIndex(year, weightingScheme), year, limit)]
    /\ CompositeCacheEffects(year, weightingScheme)
    /\ UNCHANGED <<rawData, WEIGHTING_SCHEMES, now, faults, asyncVars, validationResults>>

CompareCountries(countries, year, weightingScheme) ==
    /\ ret' = [op |-> "compareCountries", countries |-> countries, year |-> year,
               weightingScheme |-> weightingScheme,
               value |-> Comparison(calculateCompositeIndex(year, weightingScheme), countries)]
    /\ CompositeCacheEffects(year, weightingScheme)
    /\ UNCHANGED <<rawData, WEIGHTING_SCHEMES, now, faults, asyncVars, validationResults>>

\* time passes
Tick ==
    /\ now < StartTime + MaxTicks * TickStep
    /\ now' = now + TickStep
    /\ UNCHANGED <<rawData, WEIGHTING_SCHEMES, globalStatsCache, compositeIndexCache,
                   lastCacheUpdate, faults, asyncVars, validationResults, ret>>

-----------------------------------------------------------------------------
(* calculateCompositeIndex as the asynchronous function it is *)

(* Between its cache test and its cache write calculateCompositeIndex awaits *)
(* getAllNormalizedScores, which awaits the fetches of the criteria.  A call *)
(* in flight is a record of calls.  The criteria are taken in two groups,    *)
(* those read with fetchClimateData and those read with fetchEconomicData:   *)
(* the criteria of a group get their data, their statistics and their        *)
(* scores in one step, and other calls and clearCache run between the steps. *)

Economic == CriteriaSet \ Climate

FetchGroups == {Climate, Economic}

\* a call that found no fresh entry and is suspended: now is read before the
\* cache test and is what the call will write to lastCacheUpdate
SuspendedCall(year, weightingScheme, caller) ==
    [year |-> year, weightingScheme |-> weightingScheme, caller |-> caller,
     started |-> now, done |-> {}, normalizedScores |-> EmptyObject, preClear |-> FALSE]

\* the calls in flight without the i-th one, whose promise has resolved
RemoveAt(seq, i) == [j \in 1..(Len(seq) - 1) |-> IF j < i THEN seq[j] ELSE seq[j + 1]]

\* The statistics cache after the criteria of S went through calculateGlobalStats
StatsCacheAfterGroup(S) ==
    [criterion \in DOMAIN globalStatsCache \cup {c \in S : StatsStored(c)} |->
        IF criterion \in S /\ StatsStored(criterion) THEN calculateGlobalStats(criterion)
        ELSE globalStatsCache[criterion]]

\* calculateCompositeIndex up to its first await: a fresh entry is returned,
\* else the call is suspended
BeginCompositeIndex(year, weightingScheme) ==
    /\ IF Fresh(compositeIndexCache, <<year, weightingScheme>>)
       THEN /\ ret' = [op |-> "calculateCompositeIndex", year |-> year,
                       weightingScheme |-> weightingScheme, from |-> "cache",
                       value |-> compositeIndexCache[<<year, weightingScheme>>]]
            /\ calls' = calls
       ELSE /\ Len(calls) < MaxCalls
            /\ calls' = Append(calls, SuspendedCall(year, weightingScheme, "client"))
            /\ ret' = ret
    /\ UNCHANGED <<rawData, WEIGHTING_SCHEMES, globalStatsCache, compositeIndexCache,
                   lastCacheUpdate, now, faults, validationResults, mapView, staleEntries>>

\* the scores of a call once the fetches of a group have resolved:
\* normalizeAndScoreData went on for each criterion of the group
ScoresWith(call, group) ==
    Built([c \in group |-> normalizeAndScoreData(c, call.year)] @@ call.normalizedScores)

\* the fetches of one group of criteria resolve for the call i, which still
\* waits for another group
NormalizeGroup(i, group) ==
    /\ group \notin calls[i].done
    /\ calls[i].done \cup {group} # FetchGroups
    /\ globalStatsCache' = StatsCacheAfterGroup(group)
    /\ lastCacheUpdate' = IF \E c \in group : StatsStored(c) THEN now ELSE lastCacheUpdate
    /\ calls' = [calls EXCEPT ![i].done = @ \cup {group},
                              ![i].normalizedScores = ScoresWith(calls[i], group)]
    /\ UNCHANGED <<rawData, WEIGHTING_SCHEMES, compositeIndexCache, now, faults,
                   validationResults, mapView, staleEntries, ret>>

\* the fetches of the last group resolve for the call i: getAllNormalizedScores
\* resolves, the result is built, written to the cache and returned without
\* another await; the Map component takes the result of its load as indexData
FinishCompositeIndex(i, group) ==
    LET call == calls[i]
        cacheKey == <<call.year, call.weightingScheme>>
        compositeResults ==
            CompositeFrom(ScoresWith(call, group), call.year, call.weightingScheme)
    IN  /\ group \notin call.done
        /\ call.done \cup {group} = FetchGroups
        /\ globalStatsCache' = StatsCacheAfterGroup(group)
        /\ compositeIndexCache' = Put(compositeIndexCache, cacheKey, compositeResults)
        /\ lastCacheUpdate' = call.started
        /\ staleEntries' = IF call.preClear THEN staleEntries \cup {cacheKey}
                           ELSE staleEntries \ {cacheKey}
        /\ calls' = RemoveAt(calls, i)
        /\ mapView' = IF call.caller = "map"
                      THEN [mapView EXCEPT !.indexData = compositeResults]
                      ELSE mapView
        /\ ret' = [op |-> "calculateCompositeIndex", year |-> call.year,
                   weightingScheme |-> call.weightingScheme, from |-> "computation",
                   value |-> compositeResults]
        /\ UNCHANGED <<rawData, WEIGHTING_SCHEMES, now, faults, validationResults>>

-----------------------------------------------------------------------------
(* Map: the loadIndexData effect *)

\* The Map component once geoJsonData is there, with its first load in flight
MountedMap(year, weightingScheme) ==
    [mounted |-> TRUE, selectedYear |-> year, weightingScheme |-> weightingScheme,
     indexData |-> EmptyObject]

\* The props selectedYear or weightingScheme change: the effect runs
\* loadIndexData, which awaits calculateCompositeIndex and then calls
\* setIndexData.  A fresh cache entry is there at once.
SelectView(year, weightingScheme) ==
    /\ mapView.mounted
    /\ <<year, weightingScheme>> # <<mapView.selectedYear, mapView.weightingScheme>>
    /\ IF Fresh(compositeIndexCache, <<year, weightingScheme>>)
       THEN /\ mapView' = [mapView EXCEPT
                              !.selectedYear = year,
                              !.weightingScheme = weightingScheme,
                              !.indexData = compositeIndexCache[<<year, weightingScheme>>]]
            /\ calls' = calls
       ELSE /\ Len(calls) < MaxCalls
            /\ mapView' = [mapView EXCEPT !.selectedYear = year,
                                          !.weightingScheme = weightingScheme]
            /\ calls' = Append(calls, SuspendedCall(year, weightingScheme, "map"))
    /\ UNCHANGED <<rawData, WEIGHTING_SCHEMES, globalStatsCache, compositeIndexCache,
                   lastCacheUpdate, now, faults, validationResults, staleEntries, ret>>

-----------------------------------------------------------------------------
(* The inputs *)

\* what the series holds where a country has no number, by criterion
MissingValueOf(criterion) ==
    CASE criterion \in {"floods", "gdpPerCapita"} -> JsNull
      [] criterion \in {"cyclones", "waterScarcity", "foodSecurity"} -> NaN
      [] criterion = "extremeHeat" -> Undefined
      [] OTHER -> JsString

\* the sets of criteria a country may have numbers for
Masks ==
    {{},
     {"floods", "cyclones", "gdpPerCapita"},
     {"floods", "cyclones", "gdpPerCapita", "foodSecurity"},
     {"extremeHeat", "wildfires", "waterScarcity", "foodSecurity"},
     CriteriaSet}

\* A country's row: the criteria it has numbers for, and the raw value it has
\* for each of them.
Profiles == [valid : Masks, level : 0..MaxRaw]

DataOf(profiles) ==
    [criterion \in CriteriaSet |->
        [country \in CountryCodes |->
            IF criterion \in profiles[country].valid
            THEN Number(profiles[country].level)
            ELSE MissingValueOf(criterion)]]

AllData == {DataOf(profiles) : profiles \in [CountryCodes -> Profiles]}

\* the rows of the service runs: one full row, one of any level, one at the gate
ServiceData ==
    {DataOf(profiles) : profiles \in
        {p \in [CountryCodes -> Profiles] :
            /\ p["USA"] = [valid |-> CriteriaSet, level |-> 0]
            /\ p["CAN"].valid = CriteriaSet
            /\ p["MEX"] = [valid |-> {"floods", "cyclones", "gdpPerCapita", "foodSecurity"},
                           level |-> 1]}}

\* scheme names
NopeId == <<"n", "o", "p", "e">>
MyMixId == <<"m", "y", "_", "m", "i", "x">>
CustomNames == {<<"E", "q", "u", "a", "l">>, <<"M", "y", " ", " ", "M", "i", "x">>}
BuiltInIds == {EqualId, EnvironmentFocusedId, EconomicFocusedId}

\* the weights handed to createCustomWeightingScheme
CustomWeights ==
    {[c \in {"gdpPerCapita"} |-> -10],
     [c \in {"floods", "gdpPerCapita"} |-> 30]}

\* the statistics handed to normalizeValue: p10 <= p90, as sorting gives them
StatsInputs ==
    {[p10 |-> x[1], p90 |-> x[2]] :
        x \in {y \in (0..MaxRaw) \X (0..MaxRaw) : y[1] <= y[2]}}

ValueInputs == {Number(n) : n \in (0 - Outlier)..(MaxRaw + Outlier)} \cup NonNumbers

ConfigInputs == {CRITERION_CONFIG[c] : c \in CriteriaSet}

-----------------------------------------------------------------------------
(* BorderVerifier: the checks of one feature *)

(* A feature is null or an object [kind, type, hasProperties, ISO_A3, NAME,    *)
(* geometry]; a property that is missing is the empty string.  A geometry is  *)
(* missing or an object [kind, type, hasCoordinates, coordinates], where      *)
(* coordinates is a sequence of polygons, a polygon a sequence of rings, a    *)
(* ring a sequence of points: a Polygon's coordinates are coordinates[1].     *)
(* A point is [lon, lat, decimals]: degrees, and the number of decimal        *)
(* places the longer of the two numbers is written with.                      *)

VALIDATION_THRESHOLDS ==
    [MIN_AREA_KM2 |-> 1, MAX_AREA_KM2 |-> 20000000, MIN_PERIMETER_KM |-> 10,
     MAX_VERTICES |-> 50000, COORDINATE_PRECISION |-> 6]

SPECIAL_CASES ==
    [ARCHIPELAGOS |-> {"IDN", "PHL", "JPN", "GRC", "NOR"},
     ENCLAVES |-> {"VAT", "SMR", "LSO"},
     COMPLEX_BORDERS |-> {"IND", "PAK", "BGR", "TUR"}]

\* an entry of result.issues; arg is the number the message is built with
Issue(type, category, message, arg) ==
    [type |-> type, category |-> category, message |-> message, arg |-> arg]

\* result.issues.push(issue)
PushIssue(result, issue) == [result EXCEPT !.issues = Append(@, issue)]

\* result.isValid = false; result.issues.push({type: 'ERROR', ...})
PushError(result, category, message, arg) ==
    [PushIssue(result, Issue("ERROR", category, message, arg)) EXCEPT !.isValid = FALSE]

validateFeatureStructure(feature, result) ==
    LET r1 == IF feature.type # "Feature"
              THEN PushError(result, "STRUCTURE", "Invalid feature type", 0)
              ELSE result
        r2 == IF ~feature.hasProperties
              THEN PushError(r1, "STRUCTURE", "Missing properties object", 0)
              ELSE r1
        r3 == IF ~feature.hasProperties \/ feature.ISO_A3 = ""
              THEN PushError(r2, "STRUCTURE", "Missing ISO_A3 country code", 0)
              ELSE r2
    IN  IF feature.geometry.kind = "missing"
        THEN PushError(r3, "STRUCTURE", "Missing geometry object", 0)
        ELSE r3

\* coordinates.forEach((ring, ringIndex) => ...), from the ring at position i
RECURSIVE ValidateRings(_, _, _)
ValidateRings(coordinates, i, result) ==
    IF i > Len(coordinates) THEN result
    ELSE LET ring == coordinates[i]
             firstPoint == ring[1]
             lastPoint == ring[Len(ring)]
             checked ==
                 IF Len(ring) < 4
                 THEN PushError(result, "COORDINATES",
                                "Ring has insufficient coordinates (minimum 4 required)", i - 1)
                 ELSE IF firstPoint # lastPoint
                 THEN PushError(result, "COORDINATES", "Ring is not closed", i - 1)
                 ELSE result
         IN  ValidateRings(coordinates, i + 1, checked)

validatePolygonCoordinates(coordinates, result) ==
    IF Len(coordinates) = 0
    THEN PushError(result, "COORDINATES", "Invalid polygon coordinates structure", 0)
    ELSE ValidateRings(coordinates, 1, result)

\* Every polygon is checked against a copy of result, {...result, issues:
\* result.issues.map(...)}: isValid and the issues pushed land in the copy,
\* which nothing reads, so result comes back as it went in.
validateMultiPolygonCoordinates(coordinates, result) ==
    IF Len(coordinates) = 0
    THEN PushError(result, "COORDINATES", "Invalid multi-polygon coordinates structure", 0)
    ELSE LET copies ==
                 [polygonIndex \in 1..Len(coordinates) |->
                     validatePolygonCoordinates(coordinates[polygonIndex], result)]
         IN  result

\* validateGeometry of a feature that has a geometry object
validateGeometry(feature, result) ==
    LET geometry == feature.geometry
    IN  IF geometry.type = ""
        THEN PushError(result, "GEOMETRY", "Missing geometry type", 0)
        ELSE IF geometry.type \notin {"Polygon", "MultiPolygon"}
        THEN PushError(result, "GEOMETRY", "Invalid geometry type", 0)
        ELSE IF ~geometry.hasCoordinates
        THEN PushError(result, "GEOMETRY", "Missing or invalid coordinates array", 0)
        ELSE IF geometry.type = "Polygon"
        THEN validatePolygonCoordinates(geometry.coordinates[1], result)
        ELSE validateMultiPolygonCoordinates(geometry.coordinates, result)

\* the sequences of a sequence, one after the other
RECURSIVE Flatten(_)
Flatten(seqs) == IF seqs = <<>> THEN <<>> ELSE Head(seqs) \o Flatten(Tail(seqs))

\* extractAllCoordinates of a geometry that has its coordinates
extractAllCoordinates(geometry) ==
    IF geometry.type = "Polygon" THEN Flatten(geometry.coordinates[1])
    ELSE IF geometry.type = "MultiPolygon"
    THEN Flatten([i \in 1..Len(geometry.coordinates) |-> Flatten(geometry.coordinates[i])])
    ELSE <<>>

\* geometry.coordinates.forEach throws: a Polygon or MultiPolygon without coordinates
ExtractThrows(geometry) ==
    geometry.type \in {"Polygon", "MultiPolygon"} /\ ~geometry.hasCoordinates

\* coordinates.forEach(coord => ...) from position i, with invalidCoords and the
\* issues so far; limit is the number of range errors that get reported
RECURSIVE ScanCoordinates(_, _, _, _, _)
ScanCoordinates(coordinates, i, invalidCoords, issues, limit) ==
    IF i > Len(coordinates) THEN [invalidCoords |-> invalidCoords, issues |-> issues]
    ELSE LET coord == coordinates[i]
             lonBad == coord.lon < -180 \/ coord.lon > 180
             latBad == coord.lat < -90 \/ coord.lat > 90
             n1 == IF lonBad THEN invalidCoords + 1 ELSE invalidCoords
             i1 == IF lonBad /\ n1 <= limit
                   THEN Append(issues, Issue("ERROR", "COORDINATES", "Invalid longitude", coord.lon))
                   ELSE issues
             n2 == IF latBad THEN n1 + 1 ELSE n1
             i2 == IF latBad /\ n2 <= limit
                   THEN Append(i1, Issue("ERROR", "COORDINATES", "Invalid latitude", coord.lat))
                   ELSE i1
             i3 == IF coord.decimals > VALIDATION_THRESHOLDS.COORDINATE_PRECISION
                   THEN Append(i2, Issue("WARNING", "COORDINATES",
                                         "High coordinate precision detected", coord.decimals))
                   ELSE i2
         IN  ScanCoordinates(coordinates, i + 1, n2, i3, limit)

\* validateCoordinates with a given limit on the reported range errors
CoordinatesChecked(feature, result, limit) ==
    LET coordinates == extractAllCoordinates(feature.geometry)
        totalCoords == Len(coordinates)
        scan == ScanCoordinates(coordinates, 1, 0, result.issues, limit)
        metrics ==
            Put(Put(Put(result.metrics, "totalCoordinates", totalCoords),
                    "invalidCoordinates", scan.invalidCoords),
                "coordinateValidityRate",
                <<(totalCoords - scan.invalidCoords) * 100, totalCoords>>)
    IN  [result EXCEPT !.issues = scan.issues,
                       !.metrics = metrics,
                       !.isValid = IF scan.invalidCoords > 0 THEN FALSE ELSE @]

validateCoordinates_NoLimit(feature, result) ==
    CoordinatesChecked(feature, result, 2 * Len(extractAllCoordinates(feature.geometry)))

\* validateCoordinates of a feature whose coordinates can be extracted.
\* coordinateValidityRate is kept as <<numerator, denominator>>.
validateCoordinates(feature, result) == CoordinatesChecked(feature, result, 5)

(* What geoJsonFormat.readFeature, getArea and getLength (OpenLayers) do with *)
(* a feature is an input of the check: lib = [throws, area, perimeter], the   *)
(* area in square kilometres and the perimeter in kilometres.                 *)

\* whether the try block of validateAreaAndPerimeter throws: the library
\* fails, or it is handed a geometry without a type
AreaThrows(feature, lib) == lib.throws \/ feature.geometry.type = ""

\* complexityRatio is left out of the metrics
validateAreaAndPerimeter(feature, result, lib) ==
    IF AreaThrows(feature, lib)
    THEN PushIssue(result, Issue("ERROR", "METRICS", "Failed to calculate area/perimeter", 0))
    ELSE LET measured ==
                 [result EXCEPT !.metrics =
                     Put(Put(@, "areaKm2", lib.area), "perimeterKm", lib.perimeter)]
             r1 == IF lib.area < VALIDATION_THRESHOLDS.MIN_AREA_KM2
                   THEN PushIssue(measured, Issue("WARNING", "METRICS", "Very small area", lib.area))
                   ELSE measured
             r2 == IF lib.area > VALIDATION_THRESHOLDS.MAX_AREA_KM2
                   THEN PushIssue(r1, Issue("WARNING", "METRICS", "Very large area", lib.area))
                   ELSE r1
         IN  IF lib.perimeter < VALIDATION_THRESHOLDS.MIN_PERIMETER_KM
             THEN PushIssue(r2, Issue("WARNING", "METRICS", "Very small perimeter", lib.perimeter))
             ELSE r2

\* averageSegmentLength is left out of the metrics
validateBorderComplexity(feature, result) ==
    LET vertexCount == Len(extractAllCoordinates(feature.geometry))
        counted == [result EXCEPT !.metrics = Put(@, "vertexCount", vertexCount)]
    IN  IF vertexCount > VALIDATION_THRESHOLDS.MAX_VERTICES
        THEN PushIssue(counted, Issue("WARNING", "COMPLEXITY", "High vertex count", vertexCount))
        ELSE counted

validateSpecialCases(feature, result) ==
    LET countryCode == feature.ISO_A3
        r1 == IF countryCode \in SPECIAL_CASES.ARCHIPELAGOS
                 /\ feature.geometry.type # "MultiPolygon"
              THEN PushIssue(result, Issue("WARNING", "SPECIAL_CASE",
                       "Archipelago country should use MultiPolygon geometry", 0))
              ELSE result
        r2 == IF countryCode \in SPECIAL_CASES.ENCLAVES
              THEN PushIssue(r1, Issue("INFO", "SPECIAL_CASE",
                       "Enclave country - verify surrounding country borders", 0))
              ELSE r1
    IN  IF countryCode \in SPECIAL_CASES.COMPLEX_BORDERS
        THEN PushIssue(r2, Issue("INFO", "SPECIAL_CASE",
                 "Complex border country - extra validation recommended", 0))
        ELSE r2

\* the catch block of validateSingleFeature
ValidationFailure(result) ==
    PushError(result, "VALIDATION_FAILURE", "Validation failed", 0)

\* validateSingleFeature rejects: feature.properties of null is read outside the try
SingleFeatureThrows(feature) == feature.kind = "null"

\* What validateSingleFeature resolves with, for a feature that is an object.
\* validateGeometry throws on a missing geometry (geometry.type of undefined),
\* validateCoordinates on coordinates it cannot walk; the catch block takes
\* the result as the checks left it and the later checks do not run.
validateSingleFeature(feature, lib) ==
    LET result == [isValid |-> TRUE, issues |-> <<>>, metrics |-> EmptyObject,
                   countryCode |-> feature.ISO_A3, countryName |-> feature.NAME]
        structure == validateFeatureStructure(feature, result)
    IN  IF feature.geometry.kind = "missing" THEN ValidationFailure(structure)
        ELSE LET geometry == validateGeometry(feature, structure)
             IN  IF ExtractThrows(feature.geometry) THEN ValidationFailure(geometry)
                 ELSE LET coordinates == validateCoordinates(feature, geometry)
                          area == validateAreaAndPerimeter(feature, coordinates, lib)
                          complexity == validateBorderComplexity(feature, area)
                      IN  validateSpecialCases(feature, complexity)

-----------------------------------------------------------------------------
(* BorderVerifier: validateBorders *)

\* validation.metrics[key] || 0
MetricOrZero(validation, key) ==
    IF key \in DOMAIN validation.metrics THEN validation.metrics[key] ELSE 0

\* the number of issues of a list that have the given category
CountCategory(issues, category) ==
    Cardinality({i \in 1..Len(issues) : issues[i].category = category})

IssueCategories ==
    {"STRUCTURE", "GEOMETRY", "COORDINATES", "METRICS", "COMPLEXITY", "SPECIAL_CASE",
     "VALIDATION_FAILURE"}

\* generateStatistics.  The averages are kept as <<total, totalCountries>>,
\* before the division and the rounding; geometryTypes and averageComplexity
\* are left out.
generateStatistics(results) ==
    LET codes == DOMAIN results
    IN  [totalCountries |-> Cardinality(codes),
         averageVertexCount |->
             <<SumOver(codes, [c \in codes |-> MetricOrZero(results[c], "vertexCount")]),
               Cardinality(codes)>>,
         averageArea |->
             <<SumOver(codes, [c \in codes |-> MetricOrZero(results[c], "areaKm2")]),
               Cardinality(codes)>>,
         issueCategories |->
             [category \in {k \in IssueCategories :
                               \E c \in codes : CountCategory(results[c].issues, k) > 0} |->
                 SumOver(codes, [c \in codes |-> CountCategory(results[c].issues, category)])]]

\* generateRecommendations: each recommendation with the count its message carries
generateRecommendations(results, stored) ==
    LET highComplexityCountries ==
            Cardinality({c \in DOMAIN stored : MetricOrZero(stored[c], "vertexCount") > 10000})
        coordinateIssues == CountCategory(results.issues, "COORDINATES")
        quality == IF results.invalidFeatures > 0
                   THEN <<[priority |-> "HIGH", category |-> "DATA_QUALITY",
                           count |-> results.invalidFeatures]>>
                   ELSE <<>>
        performance == IF highComplexityCountries > 0
                       THEN <<[priority |-> "MEDIUM", category |-> "PERFORMANCE",
                               count |-> highComplexityCountries]>>
                       ELSE <<>>
        coordinates == IF coordinateIssues > 0
                       THEN <<[priority |-> "HIGH", category |-> "COORDINATES",
                               count |-> coordinateIssues]>>
                       ELSE <<>>
    IN  quality \o performance \o coordinates

\* The loop of validateBorders from the feature at position i on.  A feature
\* that makes validateSingleFeature reject ends the loop: the rejection is
\* not caught, and what the loop stored so far stays stored.
RECURSIVE ValidateFeatures(_, _, _, _)
ValidateFeatures(features, libs, i, acc) ==
    IF i > Len(features) THEN acc
    ELSE IF SingleFeatureThrows(features[i]) THEN [acc EXCEPT !.threw = TRUE]
    ELSE LET feature == features[i]
             validation == validateSingleFeature(feature, libs[i])
             counted ==
                 IF validation.isValid
                 THEN [acc EXCEPT !.results.validFeatures = @ + 1]
                 ELSE [acc EXCEPT !.results.invalidFeatures = @ + 1,
                                  !.results.issues = @ \o validation.issues]
             stored ==
                 IF feature.ISO_A3 # ""
                 THEN [counted EXCEPT !.stored = Put(@, feature.ISO_A3, validation)]
                 ELSE counted
         IN  ValidateFeatures(features, libs, i + 1, stored)

\* the results object validateBorders starts with
EmptyResults ==
    [totalFeatures |-> 0, validFeatures |-> 0, invalidFeatures |-> 0, issues |-> <<>>,
     statistics |-> EmptyObject, recommendations |-> <<>>]

ValidateSingleFeature(feature, lib) ==
    /\ ret' = IF SingleFeatureThrows(feature)
              THEN [op |-> "validateSingleFeature", feature |-> feature, lib |-> lib,
                    threw |-> TRUE]
              ELSE [op |-> "validateSingleFeature", feature |-> feature, lib |-> lib,
                    threw |-> FALSE, value |-> validateSingleFeature(feature, lib)]
    /\ UNCHANGED <<rawData, WEIGHTING_SCHEMES, globalStatsCache, compositeIndexCache,
                   lastCacheUpdate, now, faults, asyncVars, validationResults>>

\* results once the loop is through: statistics and recommendations filled in
WithStatistics(results, stored) ==
    [results EXCEPT !.statistics = generateStatistics(stored),
                    !.recommendations = generateRecommendations(results, stored)]

\* geoJsonData is null or an object [kind, hasFeatures, features]
ValidateBorders(geoJsonData, libs) ==
    /\ IF geoJsonData.kind = "null" \/ ~geoJsonData.hasFeatures
       THEN /\ ret' = [op |-> "validateBorders", geoJsonData |-> geoJsonData,
                       libs |-> libs, threw |-> FALSE,
                       value |-> [EmptyResults EXCEPT !.issues =
                                     <<Issue("CRITICAL", "",
                                             "Invalid or missing GeoJSON data structure", 0)>>]]
            /\ UNCHANGED validationResults
       ELSE LET start == [results |-> [EmptyResults EXCEPT
                                          !.totalFeatures = Len(geoJsonData.features)],
                          stored |-> validationResults,
                          threw |-> FALSE]
                end == ValidateFeatures(geoJsonData.features, libs, 1, start)
            IN  /\ validationResults' = end.stored
                /\ ret' = IF end.threw
                          THEN [op |-> "validateBorders", geoJsonData |-> geoJsonData,
                                libs |-> libs, threw |-> TRUE]
                          ELSE [op |-> "validateBorders", geoJsonData |-> geoJsonData,
                                libs |-> libs, threw |-> FALSE,
                                value |-> WithStatistics(end.results, end.stored)]
    /\ UNCHANGED <<rawData, WEIGHTING_SCHEMES, globalStatsCache, compositeIndexCache,
                   lastCacheUpdate, now, faults, asyncVars>>

-----------------------------------------------------------------------------
(* The features and collections handed to the BorderVerifier *)

\* a ring has 3..MaxRingLen points
MaxRingLen == 4
\* a collection has at most MaxFeatures features
MaxFeatures == 2

Point(lon, lat, decimals) == [lon |-> lon, lat |-> lat, decimals |-> decimals]

\* points in range, one of them written with 7 decimals, and points out of range
BorderPoints ==
    {Point(0, 0, 0), Point(10, 0, 0), Point(10, 10, 7),
     Point(200, 0, 0), Point(0, -100, 0), Point(-200, 100, 0)}

\* the ring of len points that starts at first, ends at last and stays at mid between
RingOf(first, mid, last, len) ==
    [i \in 1..len |-> IF i = 1 THEN first ELSE IF i = len THEN last ELSE mid]

Rings ==
    {RingOf(first, mid, last, len) :
        first \in BorderPoints, mid \in BorderPoints, last \in BorderPoints,
        len \in 3..MaxRingLen}

GoodRing == RingOf(Point(0, 0, 0), Point(10, 0, 0), Point(0, 0, 0), 4)
OpenRing == RingOf(Point(0, 0, 0), Point(10, 0, 0), Point(10, 0, 0), 4)
ShortRing == RingOf(Point(0, 0, 0), Point(10, 0, 0), Point(0, 0, 0), 3)
SomeRings == {GoodRing, OpenRing, ShortRing}

Geometry(type, hasCoordinates, coordinates) ==
    [kind |-> "object", type |-> type, hasCoordinates |-> hasCoordinates,
     coordinates |-> coordinates]

NoGeometry ==
    [kind |-> "missing", type |-> "", hasCoordinates |-> FALSE, coordinates |-> <<>>]

\* geometries of every shape, over a few rings
SmallGeometries ==
    {NoGeometry,
     Geometry("", TRUE, << <<GoodRing>> >>),
     Geometry("Point", TRUE, << <<GoodRing>> >>),
     Geometry("Polygon", FALSE, <<>>),
     Geometry("MultiPolygon", FALSE, <<>>),
     Geometry("Polygon", TRUE, << <<>> >>),
     Geometry("MultiPolygon", TRUE, <<>>)}
    \cup {Geometry("Polygon", TRUE, << <<ring>> >>) : ring \in SomeRings}
    \cup {Geometry("Polygon", TRUE, << <<outer, hole>> >>) :
             outer \in SomeRings, hole \in SomeRings}
    \cup {Geometry("MultiPolygon", TRUE, << <<ring>> >>) : ring \in SomeRings}
    \cup {Geometry("MultiPolygon", TRUE, << <<a>>, <<b>> >>) :
             a \in SomeRings, b \in SomeRings}

\* geometries of one ring, over every ring
RingGeometries ==
    {Geometry(type, TRUE, << <<ring>> >>) :
        type \in {"Polygon", "MultiPolygon"}, ring \in Rings}

Feature(type, hasProperties, code, geometry) ==
    [kind |-> "object", type |-> type, hasProperties |-> hasProperties,
     ISO_A3 |-> code, NAME |-> code, geometry |-> geometry]

NullFeature ==
    [kind |-> "null", type |-> "", hasProperties |-> FALSE,
     ISO_A3 |-> "", NAME |-> "", geometry |-> NoGeometry]

\* no properties, properties without a code, and the codes of an ordinary
\* country, an archipelago, an enclave and a country with complex borders
PropertyInputs ==
    {<<FALSE, "">>, <<TRUE, "">>, <<TRUE, "USA">>, <<TRUE, "IDN">>, <<TRUE, "VAT">>,
     <<TRUE, "TUR">>}

Features ==
    {NullFeature}
    \cup {Feature(type, p[1], p[2], geometry) :
             type \in {"Feature", "FeatureCollection"}, p \in PropertyInputs,
             geometry \in SmallGeometries}
    \cup {Feature("Feature", TRUE, "USA", geometry) : geometry \in RingGeometries}

LibFails == [throws |-> TRUE, area |-> 0, perimeter |-> 0]
LibMeasures(area, perimeter) == [throws |-> FALSE, area |-> area, perimeter |-> perimeter]

Libs ==
    {LibFails} \cup {LibMeasures(area, perimeter) :
                        area \in {0, 500, 20000001}, perimeter \in {5, 2000}}

\* the features of the collections: null, malformed, invalid and valid ones
BatchFeatures ==
    {NullFeature,
     Feature("", FALSE, "", NoGeometry),
     Feature("Feature", TRUE, "USA", Geometry("Polygon", TRUE, << <<GoodRing>> >>)),
     Feature("Feature", TRUE, "USA", Geometry("Polygon", TRUE, << <<OpenRing>> >>)),
     Feature("Feature", TRUE, "IDN", Geometry("MultiPolygon", TRUE, << <<GoodRing>> >>))}

BatchLibs == {LibFails, LibMeasures(500, 2000)}

Collections ==
    {[kind |-> "null", hasFeatures |-> FALSE, features |-> <<>>],
     [kind |-> "object", hasFeatures |-> FALSE, features |-> <<>>]}
    \cup {[kind |-> "object", hasFeatures |-> TRUE, features |-> features] :
             features \in UNION {[1..n -> BatchFeatures] : n \in 0..MaxFeatures}}

\* the data of the read views: one full row, one row of any level that
\* is full or below the gate, one row at the gate
ViewData ==
    {DataOf(profiles) : profiles \in
        {p \in [CountryCodes -> Profiles] :
            /\ p["USA"].valid = CriteriaSet
            /\ p["USA"].level \in {0, MaxRaw}
            /\ p["CAN"].valid \in {CriteriaSet, {"floods", "cyclones", "gdpPerCapita"}}
            /\ p["MEX"] = [valid |-> {"floods", "cyclones", "gdpPerCapita", "foodSecurity"},
                           level |-> 1]}}

\* the countries asked for: those of the series and one the series lacks
CountryInputs == CountryCodes \cup {"ATL"}

CountryLists ==
    {ArrayOf(<<>>), ArrayOf(<<"USA", "ATL">>), ArrayOf(<<"MEX", "CAN", "USA">>),
     ArrayOf(<<"CAN", "CAN">>), JsNull}

ViewSchemes == {EqualId, EconomicFocusedId}

\* the data of the runs with faults: every criterion with numbers, or three
\* criteria without any
FaultData ==
    {DataOf(profiles) : profiles \in
        {p \in [CountryCodes -> Profiles] :
            /\ p["USA"].level = 0
            /\ p["MEX"].level = 1
            /\ p["USA"].valid \in {CriteriaSet,
                                   {"floods", "cyclones", "gdpPerCapita", "foodSecurity"}}
            /\ p["CAN"].valid = p["USA"].valid
            /\ p["MEX"].valid = p["USA"].valid}}

\* the upstream request of a criterion fails; the series of a criterion
\* arrives with a null year entry
FaultInputs ==
    [upstream : {{}, {"floods"}, {"extremeHeat"}},
     nullYear : {{}, {"cyclones"}, {"gdpPerCapita"}}]

\* a criterion CRITERION_CONFIG does not have
Bogus == "bogus"

CriterionInputs == {"floods", "cyclones", "extremeHeat", "gdpPerCapita", Bogus}

-----------------------------------------------------------------------------
(* Specifications *)

InitService(data) ==
    /\ rawData \in data
    /\ WEIGHTING_SCHEMES = InitialSchemes
    /\ globalStatsCache = EmptyObject
    /\ compositeIndexCache = EmptyObject
    /\ lastCacheUpdate = 0
    /\ now = StartTime
    /\ faults = NoFaults
    /\ validationResults = EmptyObject
    /\ calls = <<>>
    /\ mapView = NoMap
    /\ staleEntries = {}
    /\ ret = [op |-> "none"]

\* The service: any calls in any order, as time passes
Init == InitService(ServiceData)

Next ==
    \/ \E year \in DataYears, weightingScheme \in {EqualId, MyMixId, NopeId} :
            CalculateCompositeIndex(year, weightingScheme)
    \/ \E name \in CustomNames, weights \in CustomWeights :
            CreateCustomWeightingScheme(name, weights)
    \/ ClearCache

Spec == Init /\ [][Next]_vars

\* One composite computation on any data
InitComposite == InitService(AllData)

NextComposite ==
    /\ ret.op = "none"
    /\ \E year \in Years, weightingScheme \in BuiltInIds \cup {NopeId} :
            CalculateCompositeIndex(year, weightingScheme)

SpecComposite == InitComposite /\ [][NextComposite]_vars

\* normalizeValue on any input
InitNorm == InitService({DataOf([country \in CountryCodes |->
                                    [valid |-> CriteriaSet, level |-> 0]])})

NextNorm ==
    \E value \in ValueInputs, stats \in StatsInputs, config \in ConfigInputs :
        NormalizeValue(value, stats, config)

SpecNorm == InitNorm /\ [][NextNorm]_vars

\* validateSingleFeature on any feature
InitFeature == InitService({MOCK_DATA})

NextFeature ==
    /\ ret.op = "none"
    /\ \E feature \in Features, lib \in Libs : ValidateSingleFeature(feature, lib)

SpecFeature == InitFeature /\ [][NextFeature]_vars

\* validateBorders on any collection, again and again on one verifier
InitBorders == InitService({MOCK_DATA})

NextBorders ==
    \E geoJsonData \in Collections :
        \E lib \in BatchLibs :
            ValidateBorders(geoJsonData, [i \in 1..Len(geoJsonData.features) |-> lib])

SpecBorders == InitBorders /\ [][NextBorders]_vars

\* The service as time passes
InitClock == InitService(ServiceData)

NextClock ==
    \/ \E year \in Years, weightingScheme \in ViewSchemes :
            CalculateCompositeIndex(year, weightingScheme)
    \/ CalculateGlobalStats("floods")
    \/ ClearCache
    \/ Tick

SpecClock == InitClock /\ [][NextClock]_vars

\* The read views
InitViews == InitService(ViewData)

NextViews ==
    \/ \E country \in CountryInputs, year \in Years, weightingScheme \in ViewSchemes :
            GetCountryBreakdown(country, year, weightingScheme)
    \/ \E year \in Years, weightingScheme \in ViewSchemes, limit \in 0..MaxLimit :
            GetCountryRankings(year, weightingScheme, limit)
    \/ \E countries \in CountryLists, year \in Years, weightingScheme \in ViewSchemes :
            CompareCountries(countries, year, weightingScheme)

SpecViews == InitViews /\ [][NextViews]_vars

\* The service on an upstream that fails and on series that are malformed
InitFaults ==
    /\ rawData \in FaultData
    /\ WEIGHTING_SCHEMES = InitialSchemes
    /\ globalStatsCache = EmptyObject
    /\ compositeIndexCache = EmptyObject
    /\ lastCacheUpdate = 0
    /\ now = StartTime
    /\ faults \in FaultInputs
    /\ validationResults = EmptyObject
    /\ calls = <<>>
    /\ mapView = NoMap
    /\ staleEntries = {}
    /\ ret = [op |-> "none"]

NextFaults ==
    \/ \E year \in DataYears : CalculateCompositeIndex(year, EqualId)
    \/ \E criterion \in CriterionInputs : CalculateGlobalStats(criterion)
    \/ \E criterion \in CriterionInputs, year \in Years :
            NormalizeAndScoreData(criterion, year)
    \/ ClearCache

SpecFaults == InitFaults /\ [][NextFaults]_vars

\* The service with calls in flight
InitAsync == InitService(ServiceData)

NextAsync ==
    \/ \E year \in DataYears, weightingScheme \in ViewSchemes :
            BeginCompositeIndex(year, weightingScheme)
    \/ \E i \in DOMAIN calls : \E group \in FetchGroups : NormalizeGroup(i, group)
    \/ \E i \in DOMAIN calls : \E group \in FetchGroups : FinishCompositeIndex(i, group)
    \/ ClearCache

SpecAsync == InitAsync /\ [][NextAsync]_vars

\* The Map component and its loads
InitMap ==
    /\ rawData \in ServiceData
    /\ WEIGHTING_SCHEMES = InitialSchemes
    /\ globalStatsCache = EmptyObject
    /\ compositeIndexCache = EmptyObject
    /\ lastCacheUpdate = 0
    /\ now = StartTime
    /\ faults = NoFaults
    /\ validationResults = EmptyObject
    /\ calls = <<SuspendedCall(2020, EqualId, "map")>>
    /\ mapView = MountedMap(2020, EqualId)
    /\ staleEntries = {}
    /\ ret = [op |-> "none"]

NextMap ==
    \/ \E year \in Years, weightingScheme \in ViewSchemes : SelectView(year, weightingScheme)
    \/ \E i \in DOMAIN calls : \E group \in FetchGroups : NormalizeGroup(i, group)
    \/ \E i \in DOMAIN calls : \E group \in FetchGroups : FinishCompositeIndex(i, group)

SpecMap == InitMap /\ [][NextMap]_vars

-----------------------------------------------------------------------------
(* Properties of normalizeValue, under SpecNorm *)

Normalized == ret.op = "normalizeValue"

NumericInputs == {value \in ValueInputs : value.kind = "number"}

\* C4: for a numeric raw value and statistics with p90 > p10, normalizeValue
\* returns a score in [0, 100].
C4_NormalizedInRange ==
    (Normalized /\ ret.rawValue.kind = "number" /\ ret.stats.p90 > ret.stats.p10)
        => ret.value \in 0..1000

\* a raw value outside [p10, p90] was normalized
C4_Witness ==
    /\ Normalized
    /\ ret.rawValue.kind = "number"
    /\ ret.stats.p90 > ret.stats.p10
    /\ (ret.rawValue.v > ret.stats.p90 \/ ret.rawValue.v < ret.stats.p10)
    /\ ret.value \in 0..1000

\* C5: with p10 < p90, an inverted criterion maps a raw value at or below p10
\* to 100 and one at or above p90 to 0, and its score never increases with the
\* raw value; a criterion that is not inverted maps p10 to 0 and p90 to 100,
\* and its score never decreases with the raw value.
C5_InversionAndMonotone ==
    (Normalized /\ ret.rawValue.kind = "number" /\ ret.stats.p10 < ret.stats.p90)
        => LET v == ret.rawValue.v
               higher == {w \in NumericInputs : w.v >= v}
           IN  IF ret.config.invertScore
               THEN /\ (v <= ret.stats.p10 => ret.value = 1000)
                    /\ (v >= ret.stats.p90 => ret.value = 0)
                    /\ \A w \in higher :
                           normalizeValue(w, ret.stats, ret.config) <= ret.value
               ELSE /\ (v <= ret.stats.p10 => ret.value = 0)
                    /\ (v >= ret.stats.p90 => ret.value = 1000)
                    /\ \A w \in higher :
                           normalizeValue(w, ret.stats, ret.config) >= ret.value

\* an inverted criterion scored a raw value strictly inside (p10, p90)
C5_Witness ==
    /\ Normalized
    /\ ret.rawValue.kind = "number"
    /\ ret.config.invertScore
    /\ ret.stats.p10 < ret.rawValue.v
    /\ ret.rawValue.v < ret.stats.p90
    /\ ret.value \in 1..999

\* C7, as stated: when p10 equals p90, normalizeValue returns 50 for any raw
\* value, whatever the invertScore flag is.
C7_AnyRawValueGives50 ==
    (Normalized /\ ret.stats.p10 = ret.stats.p90) => ret.value = 500

\* C7, amended: when p10 equals p90, normalizeValue returns 50 for any raw
\* value that is a number (not NaN), whatever the invertScore flag is, and
\* null for a raw value that is null, undefined, NaN or not a number.
C7_NumericRawValueGives50 ==
    (Normalized /\ ret.stats.p10 = ret.stats.p90)
        => ret.value = IF ret.rawValue.kind = "number" THEN 500 ELSE Null

\* a number away from the single percentile value scored 50, inverted or not
C7_Witness ==
    /\ Normalized
    /\ ret.stats.p10 = ret.stats.p90
    /\ ret.rawValue.kind = "number"
    /\ ret.rawValue.v # ret.stats.p10
    /\ ~ret.config.invertScore
    /\ ret.value = 500

-----------------------------------------------------------------------------
(* Properties of one composite computation, under SpecComposite *)

Computed == ret.op = "calculateCompositeIndex"

\* the criteria with a non-null normalized score for a country in a year
ScoredCriteria(country, year) ==
    {criterion \in CriteriaSet :
        /\ year \in DataYears
        /\ normalizeValue(rawData[criterion][country], ComputeStats(rawData[criterion]),
                          CRITERION_CONFIG[criterion]) # Null}

\* C1: a country is in the result of calculateCompositeIndex if and only if
\* at least 4 of the 7 criteria have a non-null normalized score for it in
\* that year.
C1_CompletenessGate ==
    Computed =>
        \A country \in CountryCodes :
            country \in DOMAIN ret.value
                <=> Cardinality(ScoredCriteria(country, ret.year)) >= 4

\* one result leaves out a country with 3 valid criteria and holds one with 4
C1_Witness ==
    /\ Computed
    /\ \E a \in CountryCodes, b \in CountryCodes :
           /\ Cardinality(ScoredCriteria(a, ret.year)) = 3
           /\ a \notin DOMAIN ret.value
           /\ Cardinality(ScoredCriteria(b, ret.year)) = 4
           /\ b \in DOMAIN ret.value

\* C2: every country's rank lies in 1..totalCountries and is 1 plus the number
\* of countries of the result with a strictly higher compositeScore.
C2_RankIsPosition ==
    Computed =>
        \A country \in DOMAIN ret.value :
            LET r == ret.value[country]
                above == {d \in DOMAIN ret.value :
                             ret.value[d].compositeScore > r.compositeScore}
            IN  /\ r.ranking.rank \in 1..r.ranking.totalCountries
                /\ r.ranking.rank = 1 + Cardinality(above)

\* C6: a missing raw value stays missing.  normalizeValue returns null for
\* null, undefined, NaN and a value that is no number, and a criterion without
\* a number gets no componentScores entry and adds nothing to the count of valid
\* criteria, to weightedSum or to totalWeight.
C6_MissingPropagates ==
    /\ \A value \in NonNumbers, stats \in StatsInputs, config \in ConfigInputs :
           normalizeValue(value, stats, config) = Null
    /\ Computed =>
           \A country \in DOMAIN ret.value :
               LET r == ret.value[country]
                   numbers == {criterion \in CriteriaSet :
                                   rawData[criterion][country].kind = "number"}
                   weightedSum ==
                       SumOver(numbers,
                               [c \in numbers |->
                                   r.componentScores[c].score * r.componentScores[c].weight])
                   totalWeight ==
                       SumOver(numbers, [c \in numbers |-> r.componentScores[c].weight])
               IN  /\ DOMAIN r.componentScores = numbers
                   /\ r.validCriteria = Cardinality(numbers)
                   /\ r.compositeScore = MathRound(weightedSum, totalWeight)

\* a country of the result has a NaN, a string, a null and an undefined value
C6_Witness ==
    /\ Computed
    /\ \E country \in DOMAIN ret.value :
           /\ \E criterion \in CriteriaSet : rawData[criterion][country] = NaN
           /\ \E criterion \in CriteriaSet : rawData[criterion][country] = JsNull
           /\ ret.value[country].validCriteria = 4
    /\ \E country \in DOMAIN ret.value :
           /\ \E criterion \in CriteriaSet : rawData[criterion][country] = JsString
           /\ \E criterion \in CriteriaSet : rawData[criterion][country] = Undefined

\* C8: two countries of one result with the same compositeScore have the same
\* rank, and a country of rank 1 has percentile 100.
C8_TiesAndTopPercentile ==
    Computed =>
        /\ \A a \in DOMAIN ret.value, b \in DOMAIN ret.value :
               ret.value[a].compositeScore = ret.value[b].compositeScore
                   => ret.value[a].ranking.rank = ret.value[b].ranking.rank
        /\ \A a \in DOMAIN ret.value :
               ret.value[a].ranking.rank = 1 => ret.value[a].ranking.percentile = 100

\* two countries tie below a third, which has rank 1
C8_Witness ==
    /\ Computed
    /\ \E a \in DOMAIN ret.value, b \in DOMAIN ret.value, c \in DOMAIN ret.value :
           /\ a # b
           /\ ret.value[a].compositeScore = ret.value[b].compositeScore
           /\ ret.value[a].ranking.rank = ret.value[b].ranking.rank
           /\ ret.value[c].compositeScore > ret.value[a].compositeScore
           /\ ret.value[c].ranking.rank = 1
           /\ ret.value[c].ranking.percentile = 100

-----------------------------------------------------------------------------
(* Properties of the service, under Spec *)

\* C3: every compositeScore lies in [0, 100] and is weightedSum / totalWeight
\* over the country's valid criteria with the weights of the selected scheme,
\* rounded to a tenth, for every scheme of the registry.
C3_WeightedAverageInRange ==
    (Computed /\ ret.weightingScheme \in DOMAIN WEIGHTING_SCHEMES) =>
        \A country \in DOMAIN ret.value :
            LET r == ret.value[country]
                valid == DOMAIN r.componentScores
                weights == SchemeWeights(ret.weightingScheme)
                weightedSum ==
                    SumOver(valid, [c \in valid |-> r.componentScores[c].score * weights[c]])
                totalWeight == SumOver(valid, [c \in valid |-> weights[c]])
            IN  /\ r.compositeScore \in 0..1000
                /\ totalWeight > 0
                /\ r.compositeScore = MathRound(weightedSum, totalWeight)

\* what calculateCompositeIndex(year, 'equal') returns in the current state
EqualResult(year) ==
    IF Fresh(compositeIndexCache, <<year, EqualId>>)
    THEN compositeIndexCache[<<year, EqualId>>]
    ELSE CompositeResults(year, EqualId)

\* the component weights, the compositeScore and the ranking of every country
ScoresOf(results) ==
    [country \in DOMAIN results |->
        [weights |-> [c \in DOMAIN results[country].componentScores |->
                         results[country].componentScores[c].weight],
         compositeScore |-> results[country].compositeScore,
         ranking |-> results[country].ranking]]

\* C9: a call with a scheme name that is not in the registry gives every
\* country the component weights, the compositeScore and the ranking that the
\* 'equal' scheme gives on the same data.
C9_UnknownSchemeIsEqual ==
    (Computed /\ ret.weightingScheme \notin DOMAIN WEIGHTING_SCHEMES)
        => ScoresOf(ret.value) = ScoresOf(EqualResult(ret.year))

\* C10: the registry always holds 'equal' with weight 1.0 for each of the
\* seven criteria.
C10_EqualAlwaysThere ==
    /\ EqualId \in DOMAIN WEIGHTING_SCHEMES
    /\ \A criterion \in CriteriaSet : WEIGHTING_SCHEMES[EqualId].weights[criterion] = 10

-----------------------------------------------------------------------------
(* Properties of validateSingleFeature, under SpecFeature *)

Validated == ret.op = "validateSingleFeature" /\ ~ret.threw

\* the number of issues of a list that have the given type and one of the messages
CountIssues(issues, type, messages) ==
    Cardinality({i \in 1..Len(issues) :
                    issues[i].type = type /\ issues[i].message \in messages})

ErrorCount(issues) == Cardinality({i \in 1..Len(issues) : issues[i].type = "ERROR"})

\* C11: the result of validateSingleFeature has isValid = false if and only if
\* its issues hold at least one issue of type ERROR.
C11_InvalidIffError ==
    Validated => (ret.value.isValid = FALSE <=> ErrorCount(ret.value.issues) > 0)

\* the rings of a Polygon, or of every polygon of a MultiPolygon
RingsOf(geometry) ==
    IF geometry.type = "Polygon" THEN geometry.coordinates[1]
    ELSE Flatten(geometry.coordinates)

DefectiveRing(ring) == Len(ring) < 4 \/ ring[1] # ring[Len(ring)]

RingMessages ==
    {"Ring has insufficient coordinates (minimum 4 required)", "Ring is not closed"}

OutOfRange(point) ==
    point.lon < -180 \/ point.lon > 180 \/ point.lat < -90 \/ point.lat > 90

\* every point a feature's coordinates hold
PointsOf(feature) ==
    IF feature.geometry.hasCoordinates
    THEN Flatten(Flatten(feature.geometry.coordinates))
    ELSE <<>>

\* nothing is wrong with the feature of the last call but one ring that is not closed
OnlyOneUnclosedRing ==
    LET feature == ret.feature
        rings == RingsOf(feature.geometry)
        points == PointsOf(feature)
    IN  /\ feature.type = "Feature" /\ feature.hasProperties /\ feature.ISO_A3 # ""
        /\ ~ret.lib.throws
        /\ \A i \in 1..Len(points) : ~OutOfRange(points[i])
        /\ \A i \in 1..Len(rings) : Len(rings[i]) >= 4
        /\ Cardinality({i \in 1..Len(rings) : DefectiveRing(rings[i])}) = 1

\* C12: for a Polygon and for every polygon of a MultiPolygon, each ring with
\* fewer than 4 points or with different first and last points gives an ERROR
\* issue and makes isValid false, and a feature whose only defect is one
\* unclosed ring gets exactly one ERROR issue.
C12_RingDefectsAreErrors ==
    (/\ Validated
     /\ ret.feature.geometry.type \in {"Polygon", "MultiPolygon"}
     /\ ret.feature.geometry.hasCoordinates)
        => LET rings == RingsOf(ret.feature.geometry)
               defective == Cardinality({i \in 1..Len(rings) : DefectiveRing(rings[i])})
           IN  /\ CountIssues(ret.value.issues, "ERROR", RingMessages) >= defective
               /\ defective > 0 => ~ret.value.isValid
               /\ OnlyOneUnclosedRing => ErrorCount(ret.value.issues) = 1

RangeMessages == {"Invalid longitude", "Invalid latitude"}

\* C13: a feature with a coordinate whose longitude is outside [-180, 180] or
\* whose latitude is outside [-90, 90] gets an ERROR issue and isValid = false,
\* and no feature gets more than 5 coordinate-range ERROR issues.
C13_RangeErrorsCapped ==
    Validated
        => LET points == PointsOf(ret.feature)
           IN  /\ (\E i \in 1..Len(points) : OutOfRange(points[i]))
                      => (ErrorCount(ret.value.issues) > 0 /\ ~ret.value.isValid)
               /\ CountIssues(ret.value.issues, "ERROR", RangeMessages) <= 5

\* a feature with more than 5 numbers out of range got 5 range errors
C13_Witness ==
    /\ Validated
    /\ "invalidCoordinates" \in DOMAIN ret.value.metrics
    /\ ret.value.metrics["invalidCoordinates"] > 5
    /\ CountIssues(ret.value.issues, "ERROR", RangeMessages) = 5
    /\ ~ret.value.isValid

-----------------------------------------------------------------------------
(* Properties of validateBorders, under SpecBorders *)

\* C14: validateBorders on a collection with a features list always completes,
\* whatever its features are, with totalFeatures = validFeatures +
\* invalidFeatures, every feature counted.
C14_BatchAlwaysCompletes ==
    (ret.op = "validateBorders" /\ ret.geoJsonData.hasFeatures)
        => /\ ~ret.threw
           /\ ret.value.totalFeatures = Len(ret.geoJsonData.features)
           /\ ret.value.totalFeatures = ret.value.validFeatures + ret.value.invalidFeatures

-----------------------------------------------------------------------------
(* Properties of the service as time passes, under SpecClock *)

\* C15: calculateCompositeIndex called twice with the same year and scheme,
\* with no clearCache and no change of the data in between, returns the same
\* output both times.
C15_SameCallSameOutput ==
    [][(/\ Computed /\ Computed'
        /\ ret'.year = ret.year
        /\ ret'.weightingScheme = ret.weightingScheme)
       => ret'.value = ret.value]_vars

-----------------------------------------------------------------------------
(* Properties of the read views, under SpecViews *)

\* the composite result a read view was computed from
ViewedIndex == compositeIndexCache[<<ret.year, ret.weightingScheme>>]

Listed(list) == {list[i].country : i \in 1..Len(list)}

NonIncreasing(list) ==
    \A i \in 1..(Len(list) - 1) :
        list[i].data.compositeScore >= list[i + 1].data.compositeScore

\* list holds count distinct countries of the viewed result, each with its entry
ListsEntries(list, count) ==
    /\ Len(list) = count
    /\ Cardinality(Listed(list)) = count
    /\ \A i \in 1..Len(list) :
          /\ list[i].country \in DOMAIN ViewedIndex
          /\ list[i].data = ViewedIndex[list[i].country]

\* C17: for a composite result that is not empty, getCountryRankings returns
\* as top the limit countries with the highest compositeScore in descending
\* order, as bottom the limit countries with the lowest compositeScore in
\* non-increasing order (best to worst), and as total the number of countries
\* of the result; limit countries are all of them when there are fewer.
C17_RankingsBestFirst ==
    (ret.op = "getCountryRankings" /\ DOMAIN ViewedIndex # {}) =>
        LET top == ret.value.top
            bottom == ret.value.bottom
            count == Min(ret.limit, Cardinality(DOMAIN ViewedIndex))
        IN  /\ ListsEntries(top, count)
            /\ NonIncreasing(top)
            /\ \A c \in DOMAIN ViewedIndex \ Listed(top) : \A i \in 1..Len(top) :
                  ViewedIndex[c].compositeScore <= top[i].data.compositeScore
            /\ ListsEntries(bottom, count)
            /\ NonIncreasing(bottom)
            /\ \A c \in DOMAIN ViewedIndex \ Listed(bottom) : \A i \in 1..Len(bottom) :
                  ViewedIndex[c].compositeScore >= bottom[i].data.compositeScore
            /\ ret.value.total = Cardinality(DOMAIN ViewedIndex)

-----------------------------------------------------------------------------
(* Properties of the service under faults, under SpecFaults *)

\* the series a criterion is scored from: the fallback series when its
\* upstream request fails
SeriesOf(criterion) ==
    IF criterion \in faults.upstream THEN MOCK_DATA[criterion] ELSE rawData[criterion]

\* the statistics of the criterion cannot be computed
StatsFail(criterion) ==
    criterion \in faults.nullYear \/ NumericCountries(SeriesOf(criterion)) = {}

\* the criteria whose statistics can be computed and that hold a number for the country
ScoredOnStats(country) ==
    {c \in CriteriaSet : ~StatsFail(c) /\ SeriesOf(c)[country].kind = "number"}

\* a failed upstream request is answered from the fallback series, and a
\* criterion whose statistics can be computed is scored on them for every
\* country of the result it holds a number for
RestIsScored ==
    \A country \in DOMAIN ret.value :
        LET componentScores == ret.value[country].componentScores
        IN  /\ \A c \in faults.upstream :
                  /\ c \in DOMAIN componentScores
                  /\ componentScores[c].rawValue = MOCK_DATA[c][country]
            /\ \A c \in ScoredOnStats(country) :
                  /\ c \in DOMAIN componentScores
                  /\ componentScores[c].score =
                        normalizeValue(SeriesOf(c)[country], ComputeStats(SeriesOf(c)),
                                       CRITERION_CONFIG[c])

\* C18 as stated: calculateCompositeIndex returns a result whatever fails; a
\* failed upstream request is replaced by the fallback series; a criterion
\* whose statistics fail contributes no score, and the other criteria are
\* still scored for every country.
C18_FailedCriterionContributesNothing ==
    Computed =>
        /\ RestIsScored
        /\ \A country \in DOMAIN ret.value : \A c \in CriteriaSet :
              StatsFail(c) => c \notin DOMAIN ret.value[country].componentScores

\* C18, amended: a criterion whose statistics fail is scored on the default
\* statistics, so it contributes a score for every country it holds a number
\* for (none when its series holds no number); the countries of the result
\* are those with a number in at least 4 criteria, and under equal weights
\* their compositeScore is the rounded mean of their scores.
C18_FailedStatsScoreOnDefaults ==
    (Computed /\ ret.year \in DataYears) =>
        /\ RestIsScored
        /\ \A country \in DOMAIN ret.value :
              LET componentScores == ret.value[country].componentScores
                  scored == DOMAIN componentScores
              IN  /\ scored = {c \in CriteriaSet : SeriesOf(c)[country].kind = "number"}
                  /\ \A c \in scored :
                        StatsFail(c) =>
                            componentScores[c].score =
                                normalizeValue(SeriesOf(c)[country], DefaultStats,
                                               CRITERION_CONFIG[c])
                  /\ ret.value[country].compositeScore =
                        MathRound(SumOver(scored, [c \in scored |-> componentScores[c].score]),
                                  Cardinality(scored))
        /\ DOMAIN ret.value =
              {country \in CountryCodes :
                  Cardinality({c \in CriteriaSet : SeriesOf(c)[country].kind = "number"})
                      >= GateMin}

\* a result computed while one upstream request failed, one series came with
\* a null year entry and holds numbers, and one criterion holds no number
C18_Witness ==
    /\ Computed
    /\ faults.upstream # {}
    /\ \E c \in CriteriaSet : NumericCountries(SeriesOf(c)) = {}
    /\ \E c \in faults.nullYear : \E country \in DOMAIN ret.value :
          c \in DOMAIN ret.value[country].componentScores

\* C19: an unknown criterion id handed to normalizeAndScoreData or to
\* calculateGlobalStats is signalled to the caller as a failure, never
\* answered with default or empty data.
C19_UnknownCriterionFails ==
    (ret.op \in {"normalizeAndScoreData", "calculateGlobalStats"}
        /\ ret.criterion \notin CriteriaSet)
    => ret.threw

\* C20: calculateGlobalStats on a criterion whose series holds no numeric
\* value does not throw and returns the default statistics (min 0, max 100,
\* mean 50, std 25, p10 10, p90 90), and the call leaves the statistics cache
\* and the cache timestamp as they were.
C20_DefaultIsNotCached ==
    [][(/\ ret'.op = "calculateGlobalStats"
        /\ ret'.criterion \in CriteriaSet
        /\ NumericCountries(fetchData(ret'.criterion)) = {})
       => /\ ~ret'.threw
          /\ ret'.value = [min |-> 0, max |-> 100, mean |-> <<50, 1>>,
                           std |-> [sqrtOf |-> <<25 * 25, 1>>], p10 |-> 10, p90 |-> 90,
                           count |-> 0, range |-> 100]
          /\ globalStatsCache' = globalStatsCache
          /\ lastCacheUpdate' = lastCacheUpdate]_vars

\* the default was returned for a criterion without numbers while the cache
\* holds the statistics of other criteria, and none for this one
C20_Witness ==
    /\ ret.op = "calculateGlobalStats"
    /\ ret.criterion \in CriteriaSet
    /\ NumericCountries(fetchData(ret.criterion)) = {}
    /\ ret.value = DefaultStats
    /\ DOMAIN globalStatsCache # {}
    /\ ret.criterion \notin DOMAIN globalStatsCache
    /\ lastCacheUpdate > 0

-----------------------------------------------------------------------------
(* Further properties of calculateCompositeIndex, under SpecComposite *)

\* C28: in every result of calculateCompositeIndex each country's
\* ranking.percentile is an integer between 0 and 100.
C28_PercentileInRange ==
    Computed =>
        \A country \in DOMAIN ret.value :
            ret.value[country].ranking.percentile \in 0..100

-----------------------------------------------------------------------------
(* Further properties of the read views, under SpecViews *)

\* C29: for every limit >= 0 and every composite result with N countries, the
\* top list and the bottom list of getCountryRankings each hold exactly
\* min(limit, N) entries.
C29_ListsHoldLimitEntries ==
    ret.op = "getCountryRankings" =>
        LET count == Min(ret.limit, Cardinality(DOMAIN ViewedIndex))
        IN  /\ Len(ret.value.top) = count
            /\ Len(ret.value.bottom) = count

-----------------------------------------------------------------------------
(* Further properties of validateSingleFeature, under SpecFeature *)

\* C30: for a validated feature with at least one coordinate,
\* metrics.invalidCoordinates is at most metrics.totalCoordinates and
\* metrics.coordinateValidityRate lies between 0 and 100.
C30_ValidityRateInRange ==
    (/\ Validated
     /\ "totalCoordinates" \in DOMAIN ret.value.metrics
     /\ ret.value.metrics["totalCoordinates"] >= 1)
    => LET metrics == ret.value.metrics
           rate == metrics["coordinateValidityRate"]
       IN  /\ metrics["invalidCoordinates"] <= metrics["totalCoordinates"]
           /\ 0 <= rate[1]
           /\ rate[1] <= 100 * rate[2]

\* the special-case issues a feature is due
SpecialCaseDue(feature) ==
    \/ feature.ISO_A3 \in SPECIAL_CASES.ENCLAVES \cup SPECIAL_CASES.COMPLEX_BORDERS
    \/ /\ feature.ISO_A3 \in SPECIAL_CASES.ARCHIPELAGOS
       /\ feature.geometry.kind = "object"
       /\ feature.geometry.type # "MultiPolygon"

\* C23: validateSingleFeature runs all six checks on every feature, whatever
\* an earlier check found: the coordinate check leaves totalCoordinates, the
\* area check leaves areaKm2 or its own ERROR, the complexity check leaves
\* vertexCount, and the special-case check reports the issues the country is
\* due.
C23_AllChecksRun ==
    Validated =>
        LET metrics == ret.value.metrics
            issues == ret.value.issues
        IN  /\ "totalCoordinates" \in DOMAIN metrics
            /\ \/ "areaKm2" \in DOMAIN metrics
               \/ \E i \in 1..Len(issues) :
                     issues[i].type = "ERROR" /\ issues[i].category = "METRICS"
            /\ "vertexCount" \in DOMAIN metrics
            /\ SpecialCaseDue(ret.feature) =>
                  \E i \in 1..Len(issues) : issues[i].category = "SPECIAL_CASE"

-----------------------------------------------------------------------------
(* Further properties of the service as time passes, under SpecClock *)

\* a step that is a call of calculateCompositeIndex: calls take no time
ComputedNow == Computed' /\ now' = now

\* C21: no call of calculateCompositeIndex returns an entry that was computed
\* more than CACHE_DURATION before the call, whatever other keys were
\* computed in between.
C21_NoStaleEntryServed ==
    [][ComputedNow =>
          \A country \in DOMAIN ret'.value :
              now' - ret'.value[country].lastUpdated <= CACHE_DURATION]_vars

\* C25: on unchanged raw data a call of calculateGlobalStats or of
\* calculateCompositeIndex returns what the previous computation for the same
\* arguments produced, also when the cached value has expired and is computed
\* again.
C25_RecomputationIsIdentical ==
    [][/\ (ret'.op = "calculateGlobalStats" /\ now' = now
              /\ ret'.criterion \in DOMAIN globalStatsCache)
          => ret'.value = globalStatsCache[ret'.criterion]
       /\ (ComputedNow /\ <<ret'.year, ret'.weightingScheme>> \in DOMAIN compositeIndexCache)
          => ret'.value = compositeIndexCache[<<ret'.year, ret'.weightingScheme>>]]_vars

-----------------------------------------------------------------------------
(* Further properties of the service, under Spec *)

\* C26: a call of calculateCompositeIndex(year, s) returns the scores computed
\* with the weights registered for s at the time of the call, also when a
\* result for (year, s) was cached before createCustomWeightingScheme
\* registered or replaced s.
C26_RegisteredWeightsAreUsed ==
    (Computed /\ ret.weightingScheme \in DOMAIN WEIGHTING_SCHEMES) =>
        ScoresOf(ret.value) = ScoresOf(CompositeResults(ret.year, ret.weightingScheme))

-----------------------------------------------------------------------------
(* Properties of the calls in flight, under SpecAsync *)

\* the last call was calculateCompositeIndex and was answered from the cache
ServedFromCache == ret.op = "calculateCompositeIndex" /\ ret.from = "cache"

\* C22: clearCache empties the statistics cache and the composite cache
\* together, and once it has returned no call of calculateCompositeIndex is
\* answered from an entry computed before the clear, also when the
\* computation was in flight when clearCache ran and wrote its result
\* afterwards.  (lastCacheUpdate is 0 from clearCache to the next write.)
C22_ClearLeavesNothingBehind ==
    /\ (ret.op = "clearCache" /\ lastCacheUpdate = 0) =>
          /\ globalStatsCache = EmptyObject
          /\ compositeIndexCache = EmptyObject
    /\ ServedFromCache => <<ret.year, ret.weightingScheme>> \notin staleEntries

-----------------------------------------------------------------------------
(* Concurrent calls for the same key *)

\* every country of a result carries its compositeScore and its ranking
CompleteResult(results) ==
    \A country \in DOMAIN results :
        /\ {"compositeScore", "ranking"} \subseteq DOMAIN results[country]
        /\ DOMAIN results[country].ranking = {"rank", "percentile", "totalCountries"}
        /\ results[country].ranking.totalCountries = Cardinality(DOMAIN results)

\* a call went through the computation and resolved with its result
ResolvedByComputation == Computed /\ ret.from = "computation"

\* C24: with several calculateCompositeIndex calls in flight, every entry of
\* the composite cache carries compositeScore and ranking for each of its
\* countries at every moment, every call resolves with such a result, and the
\* cache holds under the key the result of the call that wrote last.
C24_CacheEntriesComplete ==
    /\ \A cacheKey \in DOMAIN compositeIndexCache :
            CompleteResult(compositeIndexCache[cacheKey])
    /\ ret.op = "calculateCompositeIndex" => CompleteResult(ret.value)
    /\ ResolvedByComputation =>
            /\ <<ret.year, ret.weightingScheme>> \in DOMAIN compositeIndexCache
            /\ compositeIndexCache[<<ret.year, ret.weightingScheme>>] = ret.value

\* a call has resolved with a result of three countries and written it while
\* another call for the same key, begun before the write, is still suspended
C24_Witness ==
    /\ ResolvedByComputation
    /\ Cardinality(DOMAIN ret.value) = 3
    /\ \E i \in DOMAIN calls :
            /\ calls[i].year = ret.year
            /\ calls[i].weightingScheme = ret.weightingScheme
            /\ calls[i].done # {}

-----------------------------------------------------------------------------
(* Properties of the Map component's index loads, under SpecMap *)

\* no load started by the Map is in flight
LoadsCompleted == \A i \in DOMAIN calls : calls[i].caller # "map"

\* C27: once all the loads started by the Map have completed, the indexData
\* it shows is the composite result of the selected year and weighting scheme,
\* in whatever order the loads completed.
C27_LatestSelectionShown ==
    (mapView.mounted /\ LoadsCompleted) =>
        /\ <<mapView.selectedYear, mapView.weightingScheme>> \in DOMAIN compositeIndexCache
        /\ mapView.indexData =
               compositeIndexCache[<<mapView.selectedYear, mapView.weightingScheme>>]

=============================================================================
